---- MODULE Spec2Model ----
(***************************************************************************)
(* Model of youtube_transcript_downloader.py: the caption normalizer       *)
(* (clean_vtt), the filename sanitizer (sanitize_filename), the caption    *)
(* retriever (download_subtitle), the channel enumerator (get_all_videos)  *)
(* and the batch orchestrator (main).                                      *)
(*                                                                         *)
(* Text is a sequence of one-character strings, so that the regular        *)
(* expressions and string methods of the source are computed character by  *)
(* character.                                                              *)
(***************************************************************************)
EXTENDS Integers, Sequences, FiniteSets, TLC

VARIABLES
    \* ---- normalizer harness (NormSpec)
    nPc, vtt_text, cleaned, nOut, nOut2,
    \* ---- sanitizer harness (SanSpec)
    sPc, sTitle, sSafe,
    \* ---- main(): position, exit status, the enumeration tool's return code
    pc, exit_code, returncode,
    \* ---- main(): locals
    videos, idx, transcript, success_count, fail_count, failed_videos, manifest,
    \* ---- filesystem: what this run created, and the scratch directory's files
    out_dir, temp_dir, scratch, combined, individual,
    \* ---- history: each video's state, and one record per download_subtitle call
    status, results, call

normVars == <<nPc, vtt_text, cleaned, nOut, nOut2>>
sanVars == <<sPc, sTitle, sSafe>>
mainVars ==
    <<pc, exit_code, returncode, videos, idx, transcript, success_count, fail_count,
      failed_videos, manifest, out_dir, temp_dir, scratch, combined, individual,
      status, results, call>>
harnessVars == <<normVars, sanVars>>
vars == <<normVars, sanVars, mainVars>>

\* ------------------------------------------------------------------ bounds

\* Number of text pieces a caption document of the normalizer harness is made of.
MaxPieces == 3
\* Number of text pieces a title of the sanitizer harness is made of.
MaxTitlePieces == 3
\* Number of lines the enumeration tool prints.
MaxVideos == 3

\* ------------------------------------------------------------ text helpers

Digit == {"0", "1", "2", "3", "4", "5", "6", "7", "8", "9"}

\* The characters str.strip() removes and \s matches (those the model uses).
Whitespace == {" ", "\t", "\r", "\n", "\f"}

RECURSIVE Concat(_)
\* The concatenation of a sequence of texts.
Concat(ss) == IF ss = <<>> THEN <<>> ELSE Head(ss) \o Concat(Tail(ss))

\* s[i..] starts with p: str.startswith at an offset.
StartsWithAt(s, i, p) ==
    /\ i + Len(p) - 1 <= Len(s)
    /\ \A k \in 1..Len(p) : s[i + k - 1] = p[k]

StartsWith(s, p) == StartsWithAt(s, 1, p)

RECURSIVE SplitFrom(_, _, _)
\* str.split("\n") of s[i..], cur being the line collected so far.
SplitFrom(s, i, cur) ==
    IF i > Len(s) THEN <<cur>>
    ELSE IF s[i] = "\n" THEN <<cur>> \o SplitFrom(s, i + 1, <<>>)
    ELSE SplitFrom(s, i + 1, Append(cur, s[i]))

SplitLines(s) == SplitFrom(s, 1, <<>>)

RECURSIVE LStripIdx(_, _, _)
\* Index of the first character of s at or after i that is not in chars.
LStripIdx(s, i, chars) ==
    IF i <= Len(s) /\ s[i] \in chars THEN LStripIdx(s, i + 1, chars) ELSE i

RECURSIVE RStripIdx(_, _, _)
\* Index of the last character of s at or before j that is not in chars.
RStripIdx(s, j, chars) ==
    IF j >= 1 /\ s[j] \in chars THEN RStripIdx(s, j - 1, chars) ELSE j

\* str.strip(chars).
StripChars(s, chars) ==
    LET a == LStripIdx(s, 1, chars)
        b == RStripIdx(s, Len(s), chars)
    IN  IF a > b THEN <<>> ELSE SubSeq(s, a, b)

\* str.strip().
Strip(s) == StripChars(s, Whitespace)

RECURSIVE JoinFrom(_, _, _)
JoinFrom(ss, i, sep) ==
    IF i > Len(ss) THEN <<>>
    ELSE IF i = Len(ss) THEN ss[i]
    ELSE ss[i] \o sep \o JoinFrom(ss, i + 1, sep)

\* sep.join(ss).
Join(ss, sep) == JoinFrom(ss, 1, sep)

\* ------------------------------------------------- clean_vtt: the patterns

\* \d{2}:\d{2}:\d{2}\.\d{3} at s[i..]: 12 characters.
ClockAt(s, i) ==
    /\ i + 11 <= Len(s)
    /\ s[i] \in Digit /\ s[i + 1] \in Digit /\ s[i + 2] = ":"
    /\ s[i + 3] \in Digit /\ s[i + 4] \in Digit /\ s[i + 5] = ":"
    /\ s[i + 6] \in Digit /\ s[i + 7] \in Digit /\ s[i + 8] = "."
    /\ s[i + 9] \in Digit /\ s[i + 10] \in Digit /\ s[i + 11] \in Digit

\* re.match(r"^\d{2}:\d{2}:\d{2}\.\d{3}\s*-->", line)
IsTimestampLine(line) ==
    /\ ClockAt(line, 1)
    /\ StartsWithAt(line, LStripIdx(line, 13, Whitespace), <<"-", "-", ">">>)

\* Length of the match of <\d{2}:\d{2}:\d{2}\.\d{3}> at s[i..], 0 if none.
TimingTagAt(s, i) ==
    IF /\ i + 13 <= Len(s)
       /\ s[i] = "<"
       /\ ClockAt(s, i + 1)
       /\ s[i + 13] = ">"
    THEN 14 ELSE 0

\* Length of the match of </?c> at s[i..], 0 if none.
CTagAt(s, i) ==
    IF StartsWithAt(s, i, <<"<", "c", ">">>) THEN 3
    ELSE IF StartsWithAt(s, i, <<"<", "/", "c", ">">>) THEN 4
    ELSE 0

\* Length of the match of <key>\S+ at s[i..], 0 if none: the key and the whole
\* run of non-whitespace after it, which must not be empty.
TokenAt(s, i, key) ==
    LET from == i + Len(key)
        to == LStripIdx(s, from, {s[k] : k \in 1..Len(s)} \ Whitespace)
    IN  IF StartsWithAt(s, i, key) /\ to > from THEN to - i ELSE 0

AlignKey == <<"a", "l", "i", "g", "n", ":">>
PositionKey == <<"p", "o", "s", "i", "t", "i", "o", "n", ":">>

AlignAt(s, i) == TokenAt(s, i, AlignKey)
PositionAt(s, i) == TokenAt(s, i, PositionKey)

RECURSIVE SubTimingFrom(_, _)
\* re.sub(r"<\d{2}:\d{2}:\d{2}\.\d{3}>", "", s): one left-to-right pass over
\* the non-overlapping matches.
SubTimingFrom(s, i) ==
    IF i > Len(s) THEN <<>>
    ELSE LET n == TimingTagAt(s, i)
         IN  IF n > 0 THEN SubTimingFrom(s, i + n)
             ELSE <<s[i]>> \o SubTimingFrom(s, i + 1)

RECURSIVE SubCTagFrom(_, _)
\* re.sub(r"</?c>", "", s)
SubCTagFrom(s, i) ==
    IF i > Len(s) THEN <<>>
    ELSE LET n == CTagAt(s, i)
         IN  IF n > 0 THEN SubCTagFrom(s, i + n)
             ELSE <<s[i]>> \o SubCTagFrom(s, i + 1)

RECURSIVE SubTokenFrom(_, _, _)
\* re.sub(key + r"\S+", "", s)
SubTokenFrom(s, i, key) ==
    IF i > Len(s) THEN <<>>
    ELSE LET n == TokenAt(s, i, key)
         IN  IF n > 0 THEN SubTokenFrom(s, i + n, key)
             ELSE <<s[i]>> \o SubTokenFrom(s, i + 1, key)

\* ------------------------------------------------ clean_vtt: line by line

WebvttKey == <<"W", "E", "B", "V", "T", "T">>
KindKey == <<"K", "i", "n", "d", ":">>
LanguageKey == <<"L", "a", "n", "g", "u", "a", "g", "e", ":">>

\* The four `continue`s at the head of the loop body: header, metadata,
\* timestamp range and blank lines are skipped.
IsSkippedLine(line) ==
    \/ StartsWith(line, WebvttKey)
    \/ StartsWith(line, KindKey)
    \/ StartsWith(line, LanguageKey)
    \/ IsTimestampLine(line)
    \/ Strip(line) = <<>>

\* The four re.sub calls and the strip that turn a kept line into its text.
StripMarkup(line) ==
    LET t1 == SubTimingFrom(line, 1)
        t2 == SubCTagFrom(t1, 1)
        t3 == SubTokenFrom(t2, 1, AlignKey)
        t4 == SubTokenFrom(t3, 1, PositionKey)
    IN  Strip(t4)

InSeq(x, s) == \E k \in 1..Len(s) : s[k] = x

\* Mutant of Dedup: a text is dropped only when it repeats the text retained
\* just before it.
DedupAdjacentOnly(acc, text) ==
    IF acc # <<>> /\ acc[Len(acc)] = text THEN acc ELSE Append(acc, text)

\* `if text not in seen: seen.add(text); cleaned.append(text)`. seen holds
\* exactly the entries of cleaned, so cleaned stands for both.
Dedup(acc, text) ==
    IF InSeq(text, acc) THEN acc ELSE Append(acc, text)

RECURSIVE CleanLoop(_, _, _)
\* The for loop of clean_vtt over lines[i..], acc being `cleaned` so far.
CleanLoop(lines, i, acc) ==
    IF i > Len(lines) THEN acc
    ELSE IF IsSkippedLine(lines[i]) THEN CleanLoop(lines, i + 1, acc)
    ELSE LET text == StripMarkup(lines[i])
         IN  IF text = <<>> THEN CleanLoop(lines, i + 1, acc)
             ELSE CleanLoop(lines, i + 1, Dedup(acc, text))

\* The list `cleaned` at the end of clean_vtt.
CleanedLines(text) == CleanLoop(SplitLines(text), 1, <<>>)

\* Mutant of clean_vtt: the retained lines are joined with a newline.
clean_vtt_JoinNewline(text) == Join(CleanedLines(text), <<"\n">>)

\* clean_vtt(vtt_text)
clean_vtt(text) == Join(CleanedLines(text), <<" ">>)

\* --------------------------------------------------------- sanitize_filename

\* The character class [<>:"/\\|?*].
ForbiddenChars == {"<", ">", ":", "\"", "/", "\\", "|", "?", "*"}

\* safe[:200]
MaxFilenameLen == 200

Untitled == <<"u", "n", "t", "i", "t", "l", "e", "d">>

\* re.sub(r'[<>:"/\\|?*]', '', title): every character of the class is dropped.
RemoveChars(s, chars) == SelectSeq(s, LAMBDA c : c \notin chars)

\* Mutant of sanitize_filename: the result is not cut to 200 characters.
SanitizeNoTruncate(title) ==
    LET safe == StripChars(RemoveChars(title, ForbiddenChars), {".", " "})
    IN  IF safe # <<>> THEN safe ELSE Untitled

\* sanitize_filename(title)
sanitize_filename(title) ==
    LET safe == StripChars(RemoveChars(title, ForbiddenChars), {".", " "})
    IN  IF safe # <<>>
        THEN SubSeq(safe, 1, IF Len(safe) < MaxFilenameLen THEN Len(safe) ELSE MaxFilenameLen)
        ELSE Untitled

\* ------------------------------------------------------- harness inputs

\* Every sequence of at most n elements of S.
RECURSIVE SeqsUpTo(_, _)
SeqsUpTo(S, n) ==
    IF n = 0 THEN {<<>>}
    ELSE LET shorter == SeqsUpTo(S, n - 1)
         IN  shorter \cup {Append(s, x) : s \in {t \in shorter : Len(t) = n - 1}, x \in S}

TagText == <<"<", "0", "0", ":", "0", "0", ":", "0", "1", ".", "2", "3", "4", ">">>
StampLine ==
    <<"0", "0", ":", "0", "0", ":", "0", "0", ".", "0", "0", "0", " ", "-", "-", ">", " ",
      "0", "0", ":", "0", "0", ":", "0", "2", ".", "0", "0", "0">>

\* The pieces caption documents are put together from: two text lines, a
\* blank, the markup the normalizer strips, halves of a timing tag, and the
\* header and timestamp lines it skips.
VttPieces ==
    { <<"H", "i", "\n">>,
      <<"Y", "o", "\n">>,
      <<" ">>,
      TagText,
      <<"<", "c", ">">>,
      <<"<", "/", "c", ">">>,
      <<"a", "l", "i", "g", "n", ":", "s", "t", "a", "r", "t">>,
      <<"p", "o", "s", "i", "t", "i", "o", "n", ":", "0", "%">>,
      <<"<", "0", "0", ":", "0", "0", ":", "0">>,
      <<"1", ".", "2", "3", "4", ">">>,
      WebvttKey,
      StampLine \o <<"\n">> }

HelloWorld == <<"H", "e", "l", "l", "o", " ", "w", "o", "r", "l", "d">>
NextLine == <<"N", "e", "x", "t", " ", "l", "i", "n", "e">>

\* The caption document of the spec's Scenario A.
ScenarioA ==
    Concat(<< WebvttKey, <<"\n", "\n">>,
              StampLine, <<"\n">>, HelloWorld, <<"\n", "\n">>,
              StampLine, <<"\n">>, HelloWorld, <<"\n">>, NextLine, <<"\n">> >>)

VttInputs == {Concat(ps) : ps \in SeqsUpTo(VttPieces, MaxPieces)} \cup {ScenarioA}

\* n times the character c.
Run(c, n) == [k \in 1..n |-> c]

ScenarioD == <<"A", "/", "B", ":", " ", "\"", "T", "e", "s", "t", "\"", "?", "*">>
AllForbidden == <<"<", ">", ":", "\"", "/", "\\", "|", "?", "*">>

TitlePieces ==
    { <<"A">>, <<" ">>, <<".">>, <<"/">>, <<"?">>, Run("x", MaxFilenameLen - 1) }

TitleInputs ==
    {Concat(ps) : ps \in SeqsUpTo(TitlePieces, MaxTitlePieces)}
        \cup {ScenarioD, AllForbidden}

\* --------------------------------------------------- normalizer harness

NormIdle ==
    /\ nPc = "idle" /\ vtt_text = <<>> /\ cleaned = <<>> /\ nOut = <<>> /\ nOut2 = <<>>

NormInit ==
    /\ nPc = "input"
    /\ vtt_text \in VttInputs
    /\ cleaned = <<>> /\ nOut = <<>> /\ nOut2 = <<>>

\* clean_vtt applied to the caption document.
Normalize ==
    /\ nPc = "input"
    /\ cleaned' = CleanedLines(vtt_text)
    /\ nOut' = clean_vtt(vtt_text)
    /\ nPc' = "normalized"
    /\ UNCHANGED <<vtt_text, nOut2>>

\* clean_vtt applied to its own output.
Renormalize ==
    /\ nPc = "normalized"
    /\ nOut2' = clean_vtt(nOut)
    /\ nPc' = "renormalized"
    /\ UNCHANGED <<vtt_text, cleaned, nOut>>

\* ---------------------------------------------------- sanitizer harness

SanIdle == sPc = "idle" /\ sTitle = <<>> /\ sSafe = <<>>

SanInit == sPc = "input" /\ sTitle \in TitleInputs /\ sSafe = <<>>

Sanitize ==
    /\ sPc = "input"
    /\ sSafe' = sanitize_filename(sTitle)
    /\ sPc' = "done"
    /\ UNCHANGED sTitle

\* ---------------------------------------------------------- get_all_videos

Tab == <<"\t">>

IdA == <<"a">>
IdAB == <<"a", "b">>
TitleSlash == <<"A", "/", "B">>
TitleQuery == <<"?">>

\* The (video_id, title) pairs the channel of the model holds; the first id is
\* a prefix of the second.
VideoRefs == { <<IdA, TitleSlash>>, <<IdAB, TitleQuery>> }

\* "%(id)s\t%(title)s"
ListingLine(ref) == ref[1] \o Tab \o ref[2]

\* A printed line without the separator.
MalformedLine == <<"n", "o", "t", "a", "b">>

ListingLines == {ListingLine(r) : r \in VideoRefs} \cup {MalformedLine}

\* What subprocess.run of the listing command ends in: a timeout, a non-zero
\* return code, or return code 0 with at most MaxVideos printed lines.
ListingResults ==
    {[timedOut |-> TRUE, returncode |-> 0, stdout |-> <<>>]}
        \cup {[timedOut |-> FALSE, returncode |-> 1, stdout |-> <<>>]}
        \cup {[timedOut |-> FALSE, returncode |-> 0,
               stdout |-> Concat([k \in 1..Len(ls) |-> ls[k] \o <<"\n">>])] :
                  ls \in SeqsUpTo(ListingLines, MaxVideos)}

\* Index of the first tab of line, 0 when it has none.
TabIndex(line) ==
    IF \E k \in 1..Len(line) : line[k] = "\t"
    THEN CHOOSE k \in 1..Len(line) : line[k] = "\t" /\ \A j \in 1..(k - 1) : line[j] # "\t"
    ELSE 0

RECURSIVE ParseListing(_, _)
\* The for loop of get_all_videos over lines[i..].
ParseListing(lines, i) ==
    IF i > Len(lines) THEN <<>>
    ELSE LET line == Strip(lines[i])
             t == TabIndex(line)
         IN  IF line = <<>> \/ t = 0 THEN ParseListing(lines, i + 1)
             ELSE << <<Strip(SubSeq(line, 1, t - 1)), Strip(SubSeq(line, t + 1, Len(line)))>> >>
                      \o ParseListing(lines, i + 1)

\* Mutant of get_all_videos: a non-zero return code is reported but the
\* function goes on to parse the (empty) output instead of exiting.
get_all_videos_NoExit(result) ==
    IF result.timedOut THEN [outcome |-> "raise", videos |-> <<>>]
    ELSE [outcome |-> "ok", videos |-> ParseListing(SplitLines(Strip(result.stdout)), 1)]

\* get_all_videos(channel_url), given what the listing command ended in:
\* TimeoutExpired is not caught, a non-zero return code is sys.exit(1).
get_all_videos(result) ==
    IF result.timedOut THEN [outcome |-> "raise", videos |-> <<>>]
    ELSE IF result.returncode # 0 THEN [outcome |-> "exit", videos |-> <<>>]
    ELSE [outcome |-> "ok", videos |-> ParseListing(SplitLines(Strip(result.stdout)), 1)]

\* -------------------------------------------------------- download_subtitle

\* Optional[str]: None is the empty sequence, a text t is <<t>>.
None == <<>>
Some(t) == <<t>>

VttExt == <<".", "v", "t", "t">>
\* f".{SUBTITLE_LANG}.vtt" and f".{SUBTITLE_LANG}-orig.vtt"
SuffixEn == <<".", "e", "n">> \o VttExt
SuffixEnOrig == <<".", "e", "n", "-", "o", "r", "i", "g">> \o VttExt
\* Another track the language pattern "en*" matches.
SuffixEnUS == <<".", "e", "n", "-", "U", "S">> \o VttExt
\* A track the tool could not deliver in the requested format.
SuffixSrv == <<".", "e", "n", ".", "s", "r", "v", "1">>

\* Caption documents the tool writes.
DocText == WebvttKey \o <<"\n", "\n", "H", "i", "\n", "H", "i", "\n", "Y", "o", "\n">>
DocOrig == <<"Y", "o", "\n">>
\* A caption document with a header and no cue.
DocBlank == WebvttKey \o <<"\n">>

CaptionDocs == {DocText, DocOrig, DocBlank}

\* clean_vtt of each caption document, computed once.
CleanedDoc == [d \in CaptionDocs |-> clean_vtt(d)]

\* What one run of the caption command does: whether subprocess.run timed out
\* and the files (suffix after the video id, content) it wrote before ending.
ToolRuns ==
    { [timedOut |-> TRUE, wrote |-> {}],
      [timedOut |-> TRUE, wrote |-> {[suffix |-> SuffixEn, content |-> DocText]}],
      [timedOut |-> FALSE, wrote |-> {}],
      [timedOut |-> FALSE, wrote |-> {[suffix |-> SuffixEn, content |-> DocText]}],
      [timedOut |-> FALSE, wrote |-> {[suffix |-> SuffixEnOrig, content |-> DocOrig]}],
      [timedOut |-> FALSE, wrote |-> {[suffix |-> SuffixEnUS, content |-> DocOrig]}],
      [timedOut |-> FALSE, wrote |-> {[suffix |-> SuffixEn, content |-> DocBlank]}],
      [timedOut |-> FALSE, wrote |-> {[suffix |-> SuffixSrv, content |-> DocOrig]}],
      [timedOut |-> FALSE, wrote |-> {[suffix |-> SuffixEn, content |-> DocText],
                                      [suffix |-> SuffixEnOrig, content |-> DocOrig]}] }

EndsWith(s, p) == Len(p) <= Len(s) /\ SubSeq(s, Len(s) - Len(p) + 1, Len(s)) = p

Exists(fs, name) == \E f \in fs : f.name = name

ReadFile(fs, name) == (CHOOSE f \in fs : f.name = name).content

\* fs after a file of that name is written (created or replaced).
WriteFile(fs, name, content) ==
    {f \in fs : f.name # name} \cup {[name |-> name, content |-> content]}

\* The scratch directory after the tool wrote its files under the output
\* template f"{video_id}.%(ext)s".
AfterTool(fs, video_id, run) ==
    {f \in fs : \A w \in run.wrote : f.name # video_id \o w.suffix}
        \cup {[name |-> video_id \o w.suffix, content |-> w.content] : w \in run.wrote}

\* Mutant of VttPaths: the .en-orig.vtt candidate is tried before .en.vtt.
VttPaths_OrigFirst(fs, video_id) ==
    IF Exists(fs, video_id \o SuffixEnOrig) THEN {video_id \o SuffixEnOrig}
    ELSE IF Exists(fs, video_id \o SuffixEn) THEN {video_id \o SuffixEn}
    ELSE {f.name : f \in {g \in fs : StartsWith(g.name, video_id) /\ EndsWith(g.name, VttExt)}}

\* The values vtt_path can end with, {} when it stays None: the .en.vtt
\* candidate, else the .en-orig.vtt candidate, else the first file of
\* os.listdir (whose order is arbitrary) that starts with the id and ends in
\* .vtt.
VttPaths(fs, video_id) ==
    IF Exists(fs, video_id \o SuffixEn) THEN {video_id \o SuffixEn}
    ELSE IF Exists(fs, video_id \o SuffixEnOrig) THEN {video_id \o SuffixEnOrig}
    ELSE {f.name : f \in {g \in fs : StartsWith(g.name, video_id) /\ EndsWith(g.name, VttExt)}}

\* Mutant of download_subtitle: TimeoutExpired is not caught.
download_subtitle_TimeoutRaises(video_id, fs, run) ==
    LET fs1 == AfterTool(fs, video_id, run)
        paths == VttPaths(fs1, video_id)
        mine == {f \in fs1 : StartsWith(f.name, video_id)}
        names == {f.name : f \in fs1}
    IN  IF run.timedOut
        THEN {[kind |-> "timeout", raised |-> TRUE, ret |-> None, scratch |-> fs1,
               listing |-> names, path |-> None, removed |-> {}]}
        ELSE IF paths = {}
        THEN {[kind |-> "absent", raised |-> FALSE, ret |-> None, scratch |-> fs1,
               listing |-> names, path |-> None, removed |-> {}]}
        ELSE {[kind |-> "located", raised |-> FALSE,
               ret |-> Some(CleanedDoc[ReadFile(fs1, p)]), scratch |-> fs1 \ mine,
               listing |-> names, path |-> Some(p),
               removed |-> {f.name : f \in mine}] : p \in paths}

\* download_subtitle(video_id, temp_dir), given the scratch directory's files
\* and what the tool run does: every (outcome, returned value or raised
\* exception, scratch directory afterwards) the call can end in. os.remove
\* may fail on any of the files to delete; the OSError is not caught and
\* leaves that file and any part of the others behind. Each outcome also
\* carries what the call saw and did: the directory listing after the tool
\* ran, the value of vtt_path, and the names it removed.
download_subtitle(video_id, fs, run) ==
    LET fs1 == AfterTool(fs, video_id, run)
        paths == VttPaths(fs1, video_id)
        mine == {f \in fs1 : StartsWith(f.name, video_id)}
        names == {f.name : f \in fs1}
    IN  IF run.timedOut
        THEN {[kind |-> "timeout", raised |-> FALSE, ret |-> None, scratch |-> fs1,
               listing |-> names, path |-> None, removed |-> {}]}
        ELSE IF paths = {}
        THEN {[kind |-> "absent", raised |-> FALSE, ret |-> None, scratch |-> fs1,
               listing |-> names, path |-> None, removed |-> {}]}
        ELSE {[kind |-> "located", raised |-> FALSE,
               ret |-> Some(CleanedDoc[ReadFile(fs1, p)]), scratch |-> fs1 \ mine,
               listing |-> names, path |-> Some(p),
               removed |-> {f.name : f \in mine}] : p \in paths}
             \cup {[kind |-> "remove_error", raised |-> TRUE, ret |-> None,
                    scratch |-> (fs1 \ mine) \cup left,
                    listing |-> names, path |-> Some(p),
                    removed |-> {f.name : f \in mine \ left}] :
                      p \in paths, left \in (SUBSET mine) \ {{}}}

\* ------------------------------------------------------------------- main

\* Mutant of Truthy: the test is `if transcript is not None:`.
Truthy_NotNone(t) == t # None

\* `if transcript:` is true of a text that is not empty.
Truthy(t) == t # None /\ t[1] # <<>>

\* f"{safe_title} [{video_id}].txt"
IndividualPath(video_id, title) ==
    sanitize_filename(title) \o <<" ", "[">> \o video_id \o <<"]", ".", "t", "x", "t">>

NoCombined == [exists |-> FALSE, total |-> 0, sections |-> <<>>]

\* Number of download_subtitle calls made for the i-th video.
Calls(i) == Cardinality({k \in 1..Len(results) : results[k].video = i})

\* What the latest call of download_subtitle saw and did: os.listdir(temp_dir)
\* after the tool ran, vtt_path, and the names it removed. NoCall before the
\* first call and once main has acted on the returned value.
NoCall == [listing |-> {}, path |-> None, removed |-> {}]

MainInit ==
    /\ pc = "start" /\ exit_code = -1 /\ returncode = -1
    /\ videos = <<>> /\ idx = 0 /\ transcript = None
    /\ success_count = 0 /\ fail_count = 0 /\ failed_videos = <<>>
    /\ manifest = <<>>
    /\ out_dir = FALSE /\ temp_dir = FALSE /\ scratch = {}
    /\ combined = NoCombined /\ individual = {}
    /\ status = <<>> /\ results = <<>> /\ call = NoCall

MainIdle ==
    /\ pc = "idle" /\ exit_code = -1 /\ returncode = -1
    /\ videos = <<>> /\ idx = 0 /\ transcript = None
    /\ success_count = 0 /\ fail_count = 0 /\ failed_videos = <<>>
    /\ manifest = <<>>
    /\ out_dir = FALSE /\ temp_dir = FALSE /\ scratch = {}
    /\ combined = NoCombined /\ individual = {}
    /\ status = <<>> /\ results = <<>> /\ call = NoCall

\* videos = get_all_videos(channel_url); total = len(videos)
Enumerate ==
    /\ pc = "start"
    /\ \E result \in ListingResults :
          LET r == get_all_videos(result)
          IN  /\ returncode' = IF result.timedOut THEN -1 ELSE result.returncode
              /\ videos' = r.videos
              /\ status' = [i \in 1..Len(r.videos) |-> "PENDING"]
              /\ pc' = CASE r.outcome = "ok" -> "mkdirs"
                         [] r.outcome = "exit" -> "exited"
                         [] OTHER -> "crashed"
              /\ exit_code' = IF r.outcome = "ok" THEN exit_code ELSE 1
    /\ UNCHANGED <<harnessVars, idx, transcript, success_count, fail_count, failed_videos, manifest,
                   out_dir, temp_dir, scratch, combined, individual, results, call>>

\* os.makedirs(output_dir, exist_ok=True); os.makedirs(temp_dir, exist_ok=True)
MakeDirs ==
    /\ pc = "mkdirs"
    /\ out_dir' = TRUE
    /\ temp_dir' = TRUE
    /\ pc' = "open"
    /\ UNCHANGED <<harnessVars, exit_code, returncode, videos, idx, transcript, success_count,
                   fail_count, failed_videos, manifest, scratch, combined, individual,
                   status, results, call>>

\* open(combined_file, "w") and the four header lines.
OpenCombined ==
    /\ pc = "open"
    /\ combined' = [exists |-> TRUE, total |-> Len(videos), sections |-> <<>>]
    /\ pc' = "loop"
    /\ UNCHANGED <<harnessVars, exit_code, returncode, videos, idx, transcript, success_count,
                   fail_count, failed_videos, manifest, out_dir, temp_dir, scratch,
                   individual, status, results, call>>

\* The head of one loop iteration for the i-th video:
\* transcript = download_subtitle(video_id, temp_dir).
DownloadFor(i) ==
    /\ \E run \in ToolRuns :
       \E r \in download_subtitle(videos[i][1], scratch, run) :
          /\ scratch' = r.scratch
          /\ transcript' = r.ret
          /\ results' = Append(results, [video |-> i, kind |-> r.kind, ret |-> r.ret])
          /\ call' = [listing |-> r.listing, path |-> r.path, removed |-> r.removed]
          /\ pc' = IF r.raised THEN "crashed" ELSE "persist"
          /\ exit_code' = IF r.raised THEN 1 ELSE exit_code
    /\ idx' = i
    /\ status' = [status EXCEPT ![i] = "FETCHING"]
    /\ UNCHANGED <<harnessVars, returncode, videos, success_count, fail_count, failed_videos,
                   manifest, out_dir, temp_dir, combined, individual>>

\* Mutant of DownloadStep: a video that was just recorded as failed is fetched
\* once more before the loop moves on.
DownloadStep_RetryOnce ==
    /\ pc = "loop"
    /\ IF idx >= 1 /\ status[idx] = "SKIPPED" /\ Calls(idx) < 2
       THEN DownloadFor(idx)
       ELSE idx < Len(videos) /\ DownloadFor(idx + 1)

\* `for idx, (video_id, title) in enumerate(videos, 1)`: the next video, once.
DownloadStep ==
    /\ pc = "loop"
    /\ idx < Len(videos)
    /\ DownloadFor(idx + 1)

\* Mutant of PersistTranscript: the section is written and the file saved but
\* the success count is left as it was.
PersistTranscript_NoCount ==
    /\ pc = "persist"
    /\ Truthy(transcript)
    /\ LET video_id == videos[idx][1]
           title == videos[idx][2]
       IN  /\ individual' = WriteFile(individual, IndividualPath(video_id, title),
                                      [title |-> title, id |-> video_id, text |-> transcript[1]])
           /\ combined' = [combined EXCEPT !.sections =
                              Append(@, [title |-> title, id |-> video_id, text |-> transcript[1]])]
    /\ status' = [status EXCEPT ![idx] = "WRITTEN"]
    /\ pc' = "loop"
    /\ UNCHANGED <<harnessVars, exit_code, returncode, videos, idx, transcript, success_count, fail_count,
                   failed_videos, manifest, out_dir, temp_dir, scratch, results>>
    /\ call' = NoCall

\* The `if transcript:` branch: the individual file, the section appended to
\* the combined file, success_count += 1. The time.sleep(2) after every tenth
\* video changes no state.
PersistTranscript ==
    /\ pc = "persist"
    /\ Truthy(transcript)
    /\ LET video_id == videos[idx][1]
           title == videos[idx][2]
       IN  /\ individual' = WriteFile(individual, IndividualPath(video_id, title),
                                      [title |-> title, id |-> video_id, text |-> transcript[1]])
           /\ combined' = [combined EXCEPT !.sections =
                              Append(@, [title |-> title, id |-> video_id, text |-> transcript[1]])]
    /\ success_count' = success_count + 1
    /\ status' = [status EXCEPT ![idx] = "WRITTEN"]
    /\ pc' = "loop"
    /\ UNCHANGED <<harnessVars, exit_code, returncode, videos, idx, transcript, fail_count,
                   failed_videos, manifest, out_dir, temp_dir, scratch, results>>
    /\ call' = NoCall

\* Mutant of RecordFailure: a section with an empty body is appended for the
\* video that has no transcript.
RecordFailure_WritesSection ==
    /\ pc = "persist"
    /\ ~Truthy(transcript)
    /\ fail_count' = fail_count + 1
    /\ failed_videos' = Append(failed_videos, videos[idx])
    /\ combined' = [combined EXCEPT !.sections =
                       Append(@, [title |-> videos[idx][2], id |-> videos[idx][1], text |-> <<>>])]
    /\ status' = [status EXCEPT ![idx] = "SKIPPED"]
    /\ pc' = "loop"
    /\ UNCHANGED <<harnessVars, exit_code, returncode, videos, idx, transcript, success_count,
                   manifest, out_dir, temp_dir, scratch, individual, results>>
    /\ call' = NoCall

\* The `else` branch: fail_count += 1; failed_videos.append((video_id, title)).
\* The time.sleep(2) after every tenth video changes no state.
RecordFailure ==
    /\ pc = "persist"
    /\ ~Truthy(transcript)
    /\ fail_count' = fail_count + 1
    /\ failed_videos' = Append(failed_videos, videos[idx])
    /\ status' = [status EXCEPT ![idx] = "SKIPPED"]
    /\ pc' = "loop"
    /\ UNCHANGED <<harnessVars, exit_code, returncode, videos, idx, transcript, success_count,
                   manifest, out_dir, temp_dir, scratch, combined, individual, results>>
    /\ call' = NoCall

\* The end of the loop and of the `with` block, then
\* `try: os.rmdir(temp_dir) except OSError: pass`: the directory goes when it
\* is empty and the removal does not fail for another reason.
RemoveTempDir ==
    /\ pc = "loop"
    /\ idx = Len(videos)
    /\ \E removed \in (IF scratch = {} THEN {TRUE, FALSE} ELSE {FALSE}) :
          temp_dir' = ~removed
    /\ pc' = "manifest"
    /\ UNCHANGED <<harnessVars, exit_code, returncode, videos, idx, transcript, success_count,
                   fail_count, failed_videos, manifest, out_dir, scratch, combined,
                   individual, status, results, call>>

\* The "videos" list of the manifest.
ManifestVideos ==
    [k \in 1..Len(videos) |->
        [id |-> videos[k][1], title |-> videos[k][2],
         has_transcript |-> ~InSeq(videos[k], failed_videos)]]

\* The manifest is built and dumped; main returns.
WriteManifest ==
    /\ pc = "manifest"
    /\ manifest' = << [total_videos |-> Len(videos),
                       transcripts_downloaded |-> success_count,
                       transcripts_failed |-> fail_count,
                       videos |-> ManifestVideos] >>
    /\ pc' = "done"
    /\ exit_code' = 0
    /\ UNCHANGED <<harnessVars, returncode, videos, idx, transcript, success_count, fail_count,
                   failed_videos, out_dir, temp_dir, scratch, combined, individual,
                   status, results, call>>

\* ------------------------------------------------------- specifications

NormNext ==
    \/ Normalize /\ UNCHANGED <<sanVars, mainVars>>
    \/ Renormalize /\ UNCHANGED <<sanVars, mainVars>>

NormStart == NormInit /\ SanIdle /\ MainIdle

NormSpec == NormStart /\ [][NormNext]_vars

SanNext == Sanitize /\ UNCHANGED <<normVars, mainVars>>

SanStart == SanInit /\ NormIdle /\ MainIdle

SanSpec == SanStart /\ [][SanNext]_vars

Init == MainInit /\ NormIdle /\ SanIdle

Next ==
    \/ Enumerate
    \/ MakeDirs
    \/ OpenCombined
    \/ DownloadStep
    \/ PersistTranscript
    \/ RecordFailure
    \/ RemoveTempDir
    \/ WriteManifest

Spec == Init /\ [][Next]_vars

\* The program is one sequential process and each of its steps ends (the
\* subprocess calls are bounded by their timeouts): a step that can be taken
\* is taken.
FairSpec == Spec /\ WF_vars(Next)

\* ------------------------------------------------ claims on the normalizer

\* The texts the loop of clean_vtt reaches its dedup test with, in input
\* order: the stripped text of every line that is neither skipped nor empty
\* after stripping.
CandidateTexts(text) ==
    LET kept == SelectSeq(SplitLines(text),
                          LAMBDA l : ~IsSkippedLine(l) /\ StripMarkup(l) # <<>>)
    IN  [k \in 1..Len(kept) |-> StripMarkup(kept[k])]

FirstIndex(x, s) == CHOOSE k \in 1..Len(s) : s[k] = x /\ \A j \in 1..(k - 1) : s[j] # x

HasTimingTag(s) == \E i \in 1..Len(s) : TimingTagAt(s, i) > 0
HasCTag(s) == \E i \in 1..Len(s) : CTagAt(s, i) > 0
HasAlignToken(s) == \E i \in 1..Len(s) : AlignAt(s, i) > 0
HasPositionToken(s) == \E i \in 1..Len(s) : PositionAt(s, i) > 0

\* Text the normalizer has nothing to do on: it does not begin like a header,
\* metadata or timestamp line and holds no tag and no annotation token.
IsPlainText(s) ==
    /\ ~StartsWith(s, WebvttKey)
    /\ ~StartsWith(s, KindKey)
    /\ ~StartsWith(s, LanguageKey)
    /\ ~IsTimestampLine(s)
    /\ ~HasTimingTag(s) /\ ~HasCTag(s)
    /\ ~HasAlignToken(s) /\ ~HasPositionToken(s)

\* C6: the retained lines of clean_vtt hold no two equal entries; they are
\* exactly the distinct stripped text lines of the document, each once, in the
\* order of their first occurrences; Scenario A gives "Hello world Next line".
C6_DedupFirstOccurrence ==
    nPc # "input" =>
        LET cand == CandidateTexts(vtt_text)
        IN  /\ \A i, j \in 1..Len(cleaned) : i # j => cleaned[i] # cleaned[j]
            /\ {cleaned[i] : i \in 1..Len(cleaned)} = {cand[i] : i \in 1..Len(cand)}
            /\ \A i, j \in 1..Len(cleaned) :
                   i < j => FirstIndex(cleaned[i], cand) < FirstIndex(cleaned[j], cand)
            /\ (vtt_text = ScenarioA => nOut = HelloWorld \o <<" ">> \o NextLine)

\* A document in which a text line comes back after another one was retained.
C6_Witness ==
    /\ nPc = "normalized"
    /\ Len(cleaned) >= 2
    /\ \E i, j \in 1..Len(CandidateTexts(vtt_text)) :
           /\ i + 1 < j
           /\ CandidateTexts(vtt_text)[i] = CandidateTexts(vtt_text)[j]
           /\ CandidateTexts(vtt_text)[i + 1] # CandidateTexts(vtt_text)[i]

\* C7: the output of the normalizer holds no inline timing tag
\* <HH:MM:SS.mmm> and no align:* or position:* token, whatever the input.
C7_NoMarkupInOutput ==
    nPc # "input" =>
        /\ ~HasTimingTag(nOut)
        /\ ~HasAlignToken(nOut)
        /\ ~HasPositionToken(nOut)

\* C8 as claimed: clean_vtt(clean_vtt(x)) = clean_vtt(x) for every x.
C8_IdempotentEveryInput ==
    nPc = "renormalized" => nOut2 = nOut

\* C8 as amended: normalizing normalized text that is plain (no header,
\* metadata or timestamp prefix, no tag, no annotation token) returns it
\* unchanged.
C8_IdempotentOnPlainText ==
    (nPc = "renormalized" /\ IsPlainText(nOut)) => nOut2 = nOut

\* A document with markup whose normalized text is plain and not empty.
C8_Witness ==
    /\ nPc = "renormalized"
    /\ IsPlainText(nOut) /\ nOut # <<>>
    /\ HasTimingTag(vtt_text) /\ HasAlignToken(vtt_text)

\* ------------------------------------------------- claims on the sanitizer

\* C9: the sanitized filename holds none of < > : " / \ | ? *, is at most 200
\* characters long and is never empty; it is "untitled" when the title is made
\* of those characters, dots and spaces only; Scenario D gives "AB Test".
C9_SanitizedFilename ==
    sPc = "done" =>
        /\ \A i \in 1..Len(sSafe) : sSafe[i] \notin ForbiddenChars
        /\ Len(sSafe) <= MaxFilenameLen
        /\ sSafe # <<>>
        /\ (\A i \in 1..Len(sTitle) : sTitle[i] \in ForbiddenChars \cup {".", " "})
               => sSafe = Untitled
        /\ (sTitle = ScenarioD => sSafe = <<"A", "B", " ", "T", "e", "s", "t">>)

\* A title longer than 200 characters with a forbidden character, cut to 200.
C9_Witness ==
    /\ sPc = "done"
    /\ Len(sTitle) > MaxFilenameLen
    /\ \E i \in 1..Len(sTitle) : sTitle[i] \in ForbiddenChars
    /\ Len(sSafe) = MaxFilenameLen

\* ---------------------------------------------------- claims on the batch

Terminal == {"WRITTEN", "SKIPPED"}

\* The i-th video's loop iteration has ended.
Processed(i) == i < idx \/ (i = idx /\ pc \in {"loop", "manifest", "done"})

\* The download_subtitle calls that returned a text that is not empty, for
\* videos whose iteration has ended, in call order.
Obtained == SelectSeq(results, LAMBDA r : Truthy(r.ret) /\ Processed(r.video))

\* Number of download_subtitle calls that returned a text that is not empty.
NumObtained == Cardinality({k \in 1..Len(results) : Truthy(results[k].ret)})

\* C1: success_count + fail_count is the number of videos processed so far
\* after every loop iteration, and the manifest's transcripts_downloaded +
\* transcripts_failed is its total_videos.
C1_CountsSumToProcessed ==
    /\ pc \in {"loop", "manifest", "done"} => success_count + fail_count = idx
    /\ pc = "persist" => success_count + fail_count = idx - 1
    /\ pc \in {"manifest", "done"} => success_count + fail_count = Len(videos)
    /\ manifest # <<>> =>
          /\ manifest[1].total_videos = Len(videos)
          /\ manifest[1].transcripts_downloaded + manifest[1].transcripts_failed
                = manifest[1].total_videos

\* A finished run over three videos with successes and failures.
C1_Witness ==
    /\ pc = "done" /\ Len(videos) = 3
    /\ manifest[1].transcripts_downloaded >= 1
    /\ manifest[1].transcripts_failed >= 1

\* C2: the manifest entries with has_transcript true are as many as
\* transcripts_downloaded, those with has_transcript false as many as
\* transcripts_failed, also when a (id, title) pair is listed more than once.
C2_FlagsMatchCounts ==
    manifest # <<>> =>
        LET m == manifest[1]
        IN  /\ Cardinality({k \in 1..Len(m.videos) : m.videos[k].has_transcript})
                  = m.transcripts_downloaded
            /\ Cardinality({k \in 1..Len(m.videos) : ~m.videos[k].has_transcript})
                  = m.transcripts_failed

\* The sections of the combined file are those of the transcripts obtained.
C3_SectionsMatch ==
    /\ Len(combined.sections) = Len(Obtained)
    /\ \A k \in 1..Len(Obtained) :
          combined.sections[k] =
              [title |-> videos[Obtained[k].video][2],
               id |-> videos[Obtained[k].video][1],
               text |-> Obtained[k].ret[1]]
    /\ \A j, k \in 1..Len(Obtained) : j < k => Obtained[j].video < Obtained[k].video

\* A step leaves the sections alone or appends one at the end.
C3_AppendOnly ==
    \/ combined'.sections = combined.sections
    \/ /\ Len(combined'.sections) = Len(combined.sections) + 1
       /\ SubSeq(combined'.sections, 1, Len(combined.sections)) = combined.sections

\* C3: at every point of a run the sections of the combined archive are the
\* already-processed videos for which a transcript was obtained, in
\* enumeration order; a section is only ever appended at the end.
C3_SectionsInEnumerationOrder == []C3_SectionsMatch /\ [][C3_AppendOnly]_vars

\* Scenario B: three videos, the second without transcript: two sections, of
\* the first and the third video, and the failed-list holds the second only.
C3_Witness ==
    /\ pc = "done" /\ Len(videos) = 3
    /\ videos[1] # videos[3]
    /\ Len(combined.sections) = 2
    /\ combined.sections[1].id = videos[1][1] /\ combined.sections[1].title = videos[1][2]
    /\ combined.sections[2].id = videos[3][1] /\ combined.sections[2].title = videos[3][2]
    /\ failed_videos = <<videos[2]>>

\* The retrieval outcomes that are per-video failures.
FailureKinds == {"timeout", "absent"}

C4_FailureIsRecorded ==
    /\ (pc = "crashed" /\ results # <<>>) => results[Len(results)].kind \notin FailureKinds
    /\ \A k \in 1..Len(results) :
          (results[k].kind \in FailureKinds /\ Processed(results[k].video)) =>
              /\ status[results[k].video] = "SKIPPED"
              /\ InSeq(videos[results[k].video], failed_videos)
    /\ pc = "done" =>
          /\ \A i \in 1..Len(videos) : Calls(i) = 1
          /\ manifest # <<>>
          /\ manifest[1].total_videos = Len(videos)
          /\ manifest[1].transcripts_downloaded = NumObtained
          /\ manifest[1].transcripts_failed = Len(videos) - NumObtained

\* Once the i-th video is recorded as failed, the next video is attempted, or,
\* after the last video, the manifest is written.
C4_RunGoesOn ==
    \A i \in 1..MaxVideos :
        (i <= Len(videos) /\ status[i] = "SKIPPED")
            ~> (IF i < Len(videos) THEN Calls(i + 1) >= 1 ELSE manifest # <<>>)

NothingCreated ==
    /\ ~out_dir /\ ~temp_dir /\ scratch = {}
    /\ ~combined.exists /\ individual = {} /\ manifest = <<>>

\* C5: when the enumeration tool exits non-zero the process ends with a
\* non-zero status and this run creates no output directory, scratch
\* directory, combined file, individual file or manifest; the enumeration
\* comes before every filesystem write.
C5_EnumerationFailureWritesNothing ==
    /\ returncode \notin {-1, 0} => (pc = "exited" /\ exit_code = 1 /\ NothingCreated)
    /\ pc \in {"start", "exited"} => NothingCreated

\* The enumeration tool has exited with return code 1.
C5_Witness == returncode = 1 /\ pc = "exited" /\ exit_code = 1

C10_States ==
    /\ \A i \in 1..Len(videos) :
          /\ Calls(i) <= 1
          /\ status[i] = "PENDING" <=> Calls(i) = 0
    /\ Cardinality({i \in 1..Len(videos) : status[i] = "FETCHING"}) <= 1
    /\ \A i \in 1..(Len(videos) - 1) : status[i + 1] # "PENDING" => status[i] \in Terminal
    /\ pc = "done" => \A i \in 1..Len(videos) : status[i] \in Terminal /\ Calls(i) = 1

C10_Moves ==
    \A i \in DOMAIN status :
        \/ status'[i] = status[i]
        \/ status[i] = "PENDING" /\ status'[i] = "FETCHING"
        \/ status[i] = "FETCHING" /\ status'[i] \in Terminal

\* C10: every video goes PENDING -> FETCHING -> WRITTEN or SKIPPED, once: the
\* Retriever is called once per list entry, a terminal state is never left,
\* at most one video is FETCHING, and a video leaves PENDING only after the
\* one before it is WRITTEN or SKIPPED.
C10_VideoStateMachine == []C10_States /\ [][C10_Moves]_vars

\* A finished run in which a failed video is followed by a written one and
\* another failed one.
C10_Witness ==
    /\ pc = "done"
    /\ status = <<"SKIPPED", "WRITTEN", "SKIPPED">>
    /\ Len(results) = 3

\* ------------------------------------------------------------ C11 .. C15

\* C11: once a call of download_subtitle for a video id has returned, with a
\* transcript or with None (timeout, no caption file located), no file of the
\* scratch directory has a name that starts with that video id.
C11_ScratchCleanAfterCall ==
    pc = "persist" => \A f \in scratch : ~StartsWith(f.name, videos[idx][1])

\* C12: a failure to remove a scratch file never aborts the run: no run in
\* which os.remove failed ends before its manifest, with the traceback of the
\* uncaught error.
C12_RemovalFailureTolerated ==
    \A k \in 1..Len(results) : results[k].kind = "remove_error" => pc # "crashed"

\* The names of a listing that start with the id and end in .vtt.
CaptionNames(listing, id) ==
    {n \in listing : StartsWith(n, id) /\ EndsWith(n, VttExt)}

\* C13: in every call where the tool did not time out, vtt_path is
\* {id}.en.vtt if the scratch directory holds it, else {id}.en-orig.vtt if it
\* holds that, else one of the names that start with the id and end in .vtt;
\* the call returns None if and only if there is no such name at all, and a
\* located file gives a text, never None.
C13_LookupPriority ==
    (pc \in {"persist", "crashed"} /\ results # <<>>) =>
        LET r == results[Len(results)]
            id == videos[r.video][1]
            en == id \o SuffixEn
            orig == id \o SuffixEnOrig
            any == CaptionNames(call.listing, id)
        IN  r.kind # "timeout" =>
              /\ en \in call.listing => call.path = Some(en)
              /\ (en \notin call.listing /\ orig \in call.listing) => call.path = Some(orig)
              /\ (en \notin call.listing /\ orig \notin call.listing /\ any # {}) =>
                     (call.path # None /\ call.path[1] \in any)
              /\ (r.kind = "absent") <=> (any = {})
              /\ r.kind = "absent" => (call.path = None /\ r.ret = None)
              /\ r.kind = "located" => r.ret # None

\* A call that finds .en.vtt, .en-orig.vtt and a non-.vtt file of its id in
\* the directory and picks .en.vtt, after a call that found no caption file.
C13_Witness ==
    /\ pc = "persist" /\ Len(results) = 3
    /\ results[1].kind = "absent"
    /\ results[2].kind = "located"
    /\ results[3].kind = "located"
    /\ videos[idx][1] \o SuffixEnOrig \in call.listing
    /\ videos[idx][1] \o SuffixSrv \in call.listing
    /\ call.path = Some(videos[idx][1] \o SuffixEn)

\* The ids of the enumerated videos are pairwise distinct.
DistinctIds ==
    \A i, j \in 1..Len(videos) : i # j => videos[i][1] # videos[j][1]

\* A name the tool gives under the output template of that id: the id, a dot,
\* then the track and extension.
WrittenFor(name, id) == StartsWith(name, id \o <<".">>)

\* C14: in a run over pairwise distinct ids, the caption file a call reads and
\* every file it removes carry the name the tool gives for the video of that
\* call (each id is fetched once, so such a file was written by that video's
\* own tool run): no file left by another video's run is read or removed.
C14_ReadsAndRemovesOwnFilesOnly ==
    (DistinctIds /\ pc \in {"persist", "crashed"} /\ results # <<>>) =>
        /\ call.path # None => WrittenFor(call.path[1], videos[idx][1])
        /\ \A n \in call.removed : WrittenFor(n, videos[idx][1])

\* download_subtitle returned a text of at least one character.
ReturnedText(ret) == ret # None /\ Len(ret[1]) > 0

\* C15: a video whose iteration has ended is WRITTEN if and only if its call
\* of download_subtitle returned a text that is not empty. The step after
\* such a return writes the individual file, appends one section and adds one
\* to the success count; the step after any other return, the empty text of a
\* located caption file included, adds one to the failure count and the video
\* to failed_videos and leaves the individual files and the combined file as
\* they were.
C15_WrittenIffNonEmptyText ==
    /\ [](\A k \in 1..Len(results) :
             Processed(results[k].video) =>
                 /\ status[results[k].video] = "WRITTEN" <=> ReturnedText(results[k].ret)
                 /\ status[results[k].video] = "SKIPPED" <=> ~ReturnedText(results[k].ret))
    /\ [][pc = "persist" =>
             IF ReturnedText(transcript)
             THEN /\ status'[idx] = "WRITTEN"
                  /\ success_count' = success_count + 1
                  /\ fail_count' = fail_count
                  /\ failed_videos' = failed_videos
                  /\ Len(combined'.sections) = Len(combined.sections) + 1
                  /\ Exists(individual', IndividualPath(videos[idx][1], videos[idx][2]))
             ELSE /\ status'[idx] = "SKIPPED"
                  /\ fail_count' = fail_count + 1
                  /\ success_count' = success_count
                  /\ failed_videos' = Append(failed_videos, videos[idx])
                  /\ individual' = individual
                  /\ combined' = combined]_vars

\* A finished run in which a caption file was located and cleaned to the
\* empty text: that video is SKIPPED and in failed_videos, no file or section
\* was written for it, and another video of the run is WRITTEN.
C15_Witness ==
    /\ pc = "done" /\ Len(results) = 2
    /\ results[1].kind = "located" /\ results[1].ret = Some(<<>>)
    /\ status = <<"SKIPPED", "WRITTEN">>
    /\ failed_videos = <<videos[1]>>
    /\ fail_count = 1 /\ success_count = 1
    /\ Len(combined.sections) = 1
    /\ Cardinality(individual) = 1


====
